---- MODULE Spec2Model ----
(***************************************************************************)
(* Job Application Assistant (src/app.py).                                 *)
(*                                                                         *)
(* The program is a linear command-line pipeline: obtain a user profile    *)
(* and a job description (loaded from JSON files or typed at the console   *)
(* and then saved), ask a remote text-completion service for a tailored    *)
(* resume and for a cover letter, and write both to timestamped files.     *)
(*                                                                         *)
(* Representation of Python values                                         *)
(*   str                 a TLA+ string                                     *)
(*   console line        a sequence of one-character strings, so that      *)
(*                       strip(), lower() and split(",") are computed      *)
(*   list                a sequence                                        *)
(*   dict                a record (a function from key strings)            *)
(*   None                the record None                                   *)
(*   Optional[str]       None or Str(s)                                    *)
(*   a file              [json |-> document] when its text is a JSON       *)
(*                       document, [text |-> s] otherwise                  *)
(***************************************************************************)
EXTENDS Integers, Sequences, FiniteSets, TLC

VARIABLES
    pc,              \* position of main() (src/app.py:535-587)
    openai_api_key,  \* the module global openai.api_key (src/app.py:35)
    files,           \* the file system: path -> file content
    user_profile,    \* main's local user_profile
    job_desc,        \* main's local job_desc
    tailored_resume, \* main's local tailored_resume
    cover_letter,    \* main's local cover_letter
    filenames,       \* main's local filenames
    requests,        \* the remote text-completion requests issued so far
    in_flight,       \* number of requests that have not been answered yet
    steps,           \* the steps main() has executed, in order
    writes,          \* every write to a file, in order: the paths
    exception,       \* the exception that left main(), if any
    subject,         \* unit harness: the value handed to the calls
    results,         \* unit harness: what the calls returned, in order
    resume_lines     \* build_base_resume_text's local list, lines

vars == <<pc, openai_api_key, files, user_profile, job_desc, tailored_resume,
          cover_letter, filenames, requests, in_flight, steps, writes,
          exception, subject, results,
          resume_lines>>

\* -----------------------------------------------------------------------
\* Bounds of the model
\* -----------------------------------------------------------------------
\* longest skills / required_skills list drawn by the unit harnesses
MaxSkills == 3
\* longest experiences list drawn by the unit harnesses
MaxExperiences == 2
\* number of save-then-load round trips of the persistence harness
MaxRoundTrips == 2
\* number of create_output_filenames calls of the file name harness
MaxCalls == 2

\* -----------------------------------------------------------------------
\* Constants of the program
\* -----------------------------------------------------------------------
DEFAULT_USER_PROFILE_FILE == "user_profile.json"
DEFAULT_JOB_DESCRIPTION_FILE == "job_description.json"
MODEL_NAME == "gpt-3.5-turbo"
MAX_TOKENS == 1000
\* TEMPERATURE = 0.7, kept as its decimal text: the model has no reals
TEMPERATURE == "0.7"

\* -----------------------------------------------------------------------
\* Python values and built-ins
\* -----------------------------------------------------------------------
None == [none |-> TRUE]
Str(s) == [str |-> s]
IsNone(v) == "none" \in DOMAIN v

\* bool(v) of an Optional[str]: None and "" are falsy
Truthy(v) == ~IsNone(v) /\ v.str # ""

\* an f-string that renders a missing or empty value as "N/A"
FormatWithDefault(v) == IF Truthy(v) THEN v.str ELSE "N/A"

\* str(v) of an Optional[str], as an f-string renders it
Format(v) == IF IsNone(v) THEN "None" ELSE v.str

\* the sequences over S of length at most n
SeqUpTo(S, n) == UNION {[1..k -> S] : k \in 0..n}

\* helpers on sequences
Range(f) == {f[i] : i \in DOMAIN f}
IsPrefix(s, t) == Len(s) <= Len(t) /\ SubSeq(t, 1, Len(s)) = s
Last(s) == s[Len(s)]

RECURSIVE text(_)
\* the str made of the characters cs
text(cs) == IF cs = <<>> THEN "" ELSE Head(cs) \o text(Tail(cs))

\* str.isspace() of one character, as str.strip() applies it. The characters
\* of the model are the ASCII characters; of these the whitespace is \t, \n,
\* \x0b, \f, \r, \x1c to \x1f (written as the characters themselves, which
\* have no escape) and the space.
IsSpace(c) == c \in {"\t", "\n", "", "\f", "\r", "", "", "", "", " "}

RECURSIVE lstrip(_)
lstrip(cs) ==
    IF cs = <<>> THEN <<>>
    ELSE IF IsSpace(Head(cs)) THEN lstrip(Tail(cs)) ELSE cs

RECURSIVE rstrip(_)
rstrip(cs) ==
    IF cs = <<>> THEN <<>>
    ELSE IF IsSpace(cs[Len(cs)]) THEN rstrip(SubSeq(cs, 1, Len(cs) - 1)) ELSE cs

\* str.strip()
strip(cs) == rstrip(lstrip(cs))

ascii_uppercase == << "A", "B", "C", "D", "E", "F", "G", "H", "I", "J", "K", "L", "M", "N", "O", "P", "Q", "R", "S", "T", "U", "V", "W", "X", "Y", "Z" >>
ascii_lowercase == << "a", "b", "c", "d", "e", "f", "g", "h", "i", "j", "k", "l", "m", "n", "o", "p", "q", "r", "s", "t", "u", "v", "w", "x", "y", "z" >>

\* str.lower() of one character: every capital letter is lowered, every other
\* character is kept
lower_char(c) ==
    IF \E i \in DOMAIN ascii_uppercase : ascii_uppercase[i] = c
    THEN ascii_lowercase[CHOOSE i \in DOMAIN ascii_uppercase : ascii_uppercase[i] = c]
    ELSE c

\* str.lower()
lower(cs) == [i \in 1..Len(cs) |-> lower_char(cs[i])]

RECURSIVE split_from(_, _, _)
\* str.split(sep) with the piece cur already read
split_from(cs, sep, cur) ==
    IF cs = <<>> THEN <<cur>>
    ELSE IF Head(cs) = sep THEN <<cur>> \o split_from(Tail(cs), sep, <<>>)
    ELSE split_from(Tail(cs), sep, Append(cur, Head(cs)))

split(cs, sep) == split_from(cs, sep, <<>>)

RECURSIVE join(_, _)
\* sep.join(strs)
join(sep, strs) ==
    IF strs = <<>> THEN ""
    ELSE IF Len(strs) = 1 THEN strs[1]
    ELSE strs[1] \o sep \o join(sep, Tail(strs))

RECURSIVE SelectNonEmpty(_)
\* [strip(p) for p in pieces if strip(p)], as strs
SelectNonEmpty(pieces) ==
    IF pieces = <<>> THEN <<>>
    ELSE IF strip(Head(pieces)) # <<>>
         THEN <<text(strip(Head(pieces)))>> \o SelectNonEmpty(Tail(pieces))
         ELSE SelectNonEmpty(Tail(pieces))

\* -----------------------------------------------------------------------
\* Data classes
\* -----------------------------------------------------------------------
UserProfile(full_name, contact_email, phone_number, professional_summary, skills, experiences, education) ==
    [full_name |-> full_name,
     contact_email |-> contact_email,
     phone_number |-> phone_number,
     professional_summary |-> professional_summary,
     skills |-> skills,
     experiences |-> experiences,
     education |-> education]

UserProfile_to_dict(self) ==
    [full_name |-> self.full_name,
     contact_email |-> self.contact_email,
     phone_number |-> self.phone_number,
     professional_summary |-> self.professional_summary,
     skills |-> self.skills,
     experiences |-> self.experiences,
     education |-> self.education]

\* dict.get(key, default)
Get(data, key, default) == IF key \in DOMAIN data THEN data[key] ELSE default

UserProfile_from_dict(data) ==
    UserProfile(Get(data, "full_name", ""),
                Get(data, "contact_email", ""),
                Get(data, "phone_number", ""),
                Get(data, "professional_summary", ""),
                Get(data, "skills", <<>>),
                Get(data, "experiences", <<>>),
                Get(data, "education", <<>>))

JobDescription(company_name, position_title, responsibilities, required_skills, job_location, job_summary, additional_notes) ==
    [company_name |-> company_name,
     position_title |-> position_title,
     responsibilities |-> responsibilities,
     required_skills |-> required_skills,
     job_location |-> job_location,
     job_summary |-> job_summary,
     additional_notes |-> additional_notes]

\* JobDescription(...) called with six arguments: additional_notes = None
JobDescription6(company_name, position_title, responsibilities, required_skills, job_location, job_summary) ==
    JobDescription(company_name, position_title, responsibilities,
                   required_skills, job_location, job_summary, None)

JobDescription_to_dict(self) ==
    [company_name |-> self.company_name,
     position_title |-> self.position_title,
     responsibilities |-> self.responsibilities,
     required_skills |-> self.required_skills,
     job_location |-> self.job_location,
     job_summary |-> self.job_summary,
     additional_notes |-> self.additional_notes]

JobDescription_from_dict_null_as_default(data) ==
    JobDescription(Get(data, "company_name", ""),
                   Get(data, "position_title", ""),
                   Get(data, "responsibilities", ""),
                   Get(data, "required_skills", <<>>),
                   Get(data, "job_location", ""),
                   Get(data, "job_summary", ""),
                   IF "additional_notes" \in DOMAIN data
                      /\ ~IsNone(data["additional_notes"])
                   THEN data["additional_notes"] ELSE Str(""))

JobDescription_from_dict(data) ==
    JobDescription(Get(data, "company_name", ""),
                   Get(data, "position_title", ""),
                   Get(data, "responsibilities", ""),
                   Get(data, "required_skills", <<>>),
                   Get(data, "job_location", ""),
                   Get(data, "job_summary", ""),
                   Get(data, "additional_notes", Str("")))

\* -----------------------------------------------------------------------
\* JSON documents (json.dump / json.load)
\* -----------------------------------------------------------------------
json_string(s) == [jstring |-> s]
json_null == [jnull |-> TRUE]
json_array(items) == [jarray |-> items]
json_object(members) == [jobject |-> members]

IsJsonObject(doc) == "jobject" \in DOMAIN doc

\* encoders: a str, an Optional[str], a list of str, a dict of str, a list of
\* dicts of str
dump_str(s) == json_string(s)
dump_optional(v) == IF IsNone(v) THEN json_null ELSE json_string(v.str)
dump_strs(l) == json_array([i \in 1..Len(l) |-> dump_str(l[i])])
dump_str_dict(d) == json_object([k \in DOMAIN d |-> dump_str(d[k])])
dump_dicts(l) == json_array([i \in 1..Len(l) |-> dump_str_dict(l[i])])

\* decoders, the inverse direction
load_str(j) == j.jstring
load_optional(j) == IF "jnull" \in DOMAIN j THEN None ELSE Str(j.jstring)
load_strs(j) == [i \in 1..Len(j.jarray) |-> load_str(j.jarray[i])]
load_str_dict(j) == [k \in DOMAIN j.jobject |-> load_str(j.jobject[k])]
load_dicts(j) == [i \in 1..Len(j.jarray) |-> load_str_dict(j.jarray[i])]

ProfileListKeys == {"skills"}
ProfileDictListKeys == {"experiences", "education"}

\* json.dump(profile.to_dict(), f, indent=4): the document written
json_dump_profile(d) ==
    json_object([k \in DOMAIN d |->
        IF k \in ProfileListKeys THEN dump_strs(d[k])
        ELSE IF k \in ProfileDictListKeys THEN dump_dicts(d[k])
        ELSE dump_str(d[k])])

\* json.load(f) of a profile document: the dict read
json_load_profile(doc) ==
    [k \in DOMAIN doc.jobject |->
        IF k \in ProfileListKeys THEN load_strs(doc.jobject[k])
        ELSE IF k \in ProfileDictListKeys THEN load_dicts(doc.jobject[k])
        ELSE load_str(doc.jobject[k])]

\* json.dump(job_desc.to_dict(), f, indent=4): the document written
json_dump_job(d) ==
    json_object([k \in DOMAIN d |->
        IF k = "required_skills" THEN dump_strs(d[k])
        ELSE IF k = "additional_notes" THEN dump_optional(d[k])
        ELSE dump_str(d[k])])

\* json.load(f) of a job document: the dict read
json_load_job(doc) ==
    [k \in DOMAIN doc.jobject |->
        IF k = "required_skills" THEN load_strs(doc.jobject[k])
        ELSE IF k = "additional_notes" THEN load_optional(doc.jobject[k])
        ELSE load_str(doc.jobject[k])]

\* -----------------------------------------------------------------------
\* Files
\* -----------------------------------------------------------------------
JsonFile(doc) == [json |-> doc]
TextFile(s) == [text |-> s]

\* os.path.exists(path)
Exists(fs, path) == path \in DOMAIN fs

\* open(path, "w") followed by the write: the file is created or replaced
WriteFile(fs, path, content) ==
    [p \in DOMAIN fs \cup {path} |-> IF p = path THEN content ELSE fs[p]]

\* how a call ends
Return(v) == [ret |-> v]
Raise(e) == [raise |-> e]
Raised(r) == "raise" \in DOMAIN r

\* -----------------------------------------------------------------------
\* Utility functions for loading and saving data
\* -----------------------------------------------------------------------
load_user_profile(fs, profile_file) ==
    IF ~Exists(fs, profile_file)
    THEN Return(UserProfile("", "", "", "", <<>>, <<>>, <<>>))
    ELSE IF "json" \notin DOMAIN fs[profile_file]
    THEN Raise("JSONDecodeError")
    ELSE IF ~IsJsonObject(fs[profile_file].json)
    THEN Raise("AttributeError")
    ELSE Return(UserProfile_from_dict(json_load_profile(fs[profile_file].json)))

\* the file system after save_user_profile(profile, profile_file)
save_user_profile(fs, profile, profile_file) ==
    WriteFile(fs, profile_file,
              JsonFile(json_dump_profile(UserProfile_to_dict(profile))))

load_job_description_without_exists_check(fs, job_file) ==
    IF ~Exists(fs, job_file)
    THEN Raise("FileNotFoundError")
    ELSE IF "json" \notin DOMAIN fs[job_file]
    THEN Raise("JSONDecodeError")
    ELSE IF ~IsJsonObject(fs[job_file].json)
    THEN Raise("AttributeError")
    ELSE Return(JobDescription_from_dict(json_load_job(fs[job_file].json)))

load_job_description(fs, job_file) ==
    IF ~Exists(fs, job_file)
    THEN Return(JobDescription6("", "", "", <<>>, "", ""))
    ELSE IF "json" \notin DOMAIN fs[job_file]
    THEN Raise("JSONDecodeError")
    ELSE IF ~IsJsonObject(fs[job_file].json)
    THEN Raise("AttributeError")
    ELSE Return(JobDescription_from_dict(json_load_job(fs[job_file].json)))

\* the file system after save_job_description(job_desc, job_file)
save_job_description(fs, job, job_file) ==
    WriteFile(fs, job_file,
              JsonFile(json_dump_job(JobDescription_to_dict(job))))

save_document_to_file_appending_newline(fs, document_content, output_filename) ==
    WriteFile(fs, output_filename, TextFile(document_content \o "\n"))

\* the file system after save_document_to_file(document_content, output_filename)
save_document_to_file(fs, document_content, output_filename) ==
    WriteFile(fs, output_filename, TextFile(document_content))

\* -----------------------------------------------------------------------
\* Formatting classes
\* -----------------------------------------------------------------------
JakesResumeFormatter_get_format_instructions ==
    "Use Jake's Resume Format:\n"
    \o "1. Header with the candidate's name in a bold or emphasized style.\n"
    \o "2. Immediately below, contact details (email and phone) on one line.\n"
    \o "3. A short 'Professional Summary' section.\n"
    \o "4. A 'Skills' section with bullet points.\n"
    \o "5. An 'Experience' section in chronological order (most recent first).\n"
    \o "6. An 'Education' section with degrees, institutions, and graduation dates.\n"
    \o "7. Keep layout neat and minimal, using consistent headings.\n"

JakesResumeFormatter_post_process_text(llm_output) == llm_output

DedyCoverLetterFormatter_get_format_instructions ==
    "Use Dedy's Cover Letter Format:\n"
    \o "1. Start with a polite salutation (e.g., 'Dear Hiring Manager at COMPANY').\n"
    \o "2. A short introduction referencing the position title and why you're interested.\n"
    \o "3. One or two concise paragraphs connecting your key skills to the job requirements.\n"
    \o "4. A concluding paragraph that reaffirms your interest and gratitude.\n"
    \o "5. A formal sign-off (e.g., 'Sincerely,') followed by your full name.\n"
    \o "6. Maintain a professional yet friendly tone throughout.\n"

DedyCoverLetterFormatter_post_process_text(llm_output) == llm_output

\* -----------------------------------------------------------------------
\* Resume and cover letter generators: the text they build
\* -----------------------------------------------------------------------
\* for skill in user.skills: lines.append(f"- {skill}")
skill_lines(skills) == [i \in 1..Len(skills) |-> "- " \o skills[i]]

RECURSIVE experience_lines(_)
\* for exp in user.experiences: two lines each
experience_lines(experiences) ==
    IF experiences = <<>> THEN <<>>
    ELSE LET exp == Head(experiences) IN
         << exp["role"] \o " at " \o exp["company"]
                \o " (" \o exp["duration"] \o ")",
            "  " \o exp["description"] >>
         \o experience_lines(Tail(experiences))

\* for edu in user.education: one line each
education_lines(education) ==
    [i \in 1..Len(education) |->
        education[i]["degree"] \o " from " \o education[i]["institution"]
            \o " - " \o education[i]["graduation_year"]]

\* the list lines of build_base_resume_text, as it stands before the join
base_resume_lines(user) ==
    << "Name: " \o user.full_name,
       "Email: " \o user.contact_email,
       "Phone: " \o user.phone_number,
       "\nProfessional Summary:",
       user.professional_summary,
       "\nSkills:" >>
    \o skill_lines(user.skills)
    \o << "\nExperience:" >>
    \o experience_lines(user.experiences)
    \o << "\nEducation:" >>
    \o education_lines(user.education)

build_base_resume_text(user) == join("\n", base_resume_lines(user))

\* the pieces the prompt of generate_tailored_resume is concatenated from,
\* one per string literal of the source
tailored_resume_prompt_pieces(user, job) ==
    << "You are a helpful assistant that customizes resumes.\n",
       "Given the following base resume and job description,\n",
       "produce a final tailored resume that emphasizes relevant\n",
       "skills and experiences. Keep length concise but effective.\n\n",
       JakesResumeFormatter_get_format_instructions \o "\n",
       "Base Resume:\n",
       build_base_resume_text(user) \o "\n\n",
       "Job Description:\n",
       "Company Name: " \o job.company_name \o "\n",
       "Position Title: " \o job.position_title \o "\n",
       "Responsibilities:\n" \o job.responsibilities \o "\n",
       "Required Skills: " \o join(", ", job.required_skills) \o "\n",
       "Location: " \o job.job_location \o "\n",
       "Job Summary:\n" \o job.job_summary \o "\n",
       "Additional Notes: "
           \o (IF Truthy(job.additional_notes)
               THEN job.additional_notes.str ELSE "N/A")
           \o "\n\n",
       "Final Tailored Resume (following Jake's format):" >>

tailored_resume_prompt(user, job) ==
    join("", tailored_resume_prompt_pieces(user, job))

\* one pass of the loop over enumerate(user.experiences, start=1)
cover_letter_experience_piece(idx, exp) ==
    ToString(idx) \o ". " \o exp["role"] \o " at " \o exp["company"] \o " "
    \o "(" \o exp["duration"] \o "): " \o exp["description"] \o "\n"

RECURSIVE enumerate_zero_based(_, _)
enumerate_zero_based(experiences, start) ==
    IF experiences = <<>> THEN <<>>
    ELSE << cover_letter_experience_piece(start - 1, Head(experiences)) >>
         \o enumerate_zero_based(Tail(experiences), start + 1)

RECURSIVE cover_letter_experience_pieces(_, _)
\* for idx, exp in enumerate(user.experiences, start): prompt += ...
cover_letter_experience_pieces(experiences, start) ==
    IF experiences = <<>> THEN <<>>
    ELSE << cover_letter_experience_piece(start, Head(experiences)) >>
         \o cover_letter_experience_pieces(Tail(experiences), start + 1)

\* the pieces the prompt of generate_cover_letter is concatenated from
cover_letter_prompt_pieces(user, job) ==
    << "You are an expert at writing professional cover letters. Given the "
           \o "user's details and the job description, write a cover letter that is "
           \o "polite, engaging, concise, and highlights the user's relevant skills, "
           \o "experiences, and genuine interest. Follow Dedy's cover letter format.\n\n",
       DedyCoverLetterFormatter_get_format_instructions \o "\n\n",
       "User's Name: " \o user.full_name \o "\n",
       "Professional Summary: " \o user.professional_summary \o "\n",
       "Key Skills: " \o join(", ", user.skills) \o "\n\n",
       "User's Experiences:\n" >>
    \o cover_letter_experience_pieces(user.experiences, 1)
    \o << "\nJob Description:\n",
          "Company Name: " \o job.company_name \o "\n",
          "Position Title: " \o job.position_title \o "\n",
          "Responsibilities:\n" \o job.responsibilities \o "\n",
          "Required Skills: " \o join(", ", job.required_skills) \o "\n",
          "Location: " \o job.job_location \o "\n",
          "Job Summary:\n" \o job.job_summary \o "\n",
          "Additional Notes: " \o Format(job.additional_notes) \o "\n\n",
          "Now write the cover letter following Dedy's format." >>

cover_letter_prompt(user, job) ==
    join("", cover_letter_prompt_pieces(user, job))

\* openai.ChatCompletion.create(model=..., messages=..., max_tokens=...,
\* temperature=...): the request sent
ChatCompletionRequest(prompt) ==
    [model |-> MODEL_NAME,
     messages |-> << [role |-> "system", content |-> prompt] >>,
     max_tokens |-> MAX_TOKENS,
     temperature |-> TEMPERATURE]

ERROR_NO_KEY_RESUME ==
    "[ERROR] OpenAI API key not found. Cannot generate tailored resume."
ERROR_NO_KEY_COVER_LETTER ==
    "[ERROR] OpenAI API key not found. Cannot generate cover letter."

\* a generator up to its remote call: it returns, or it sends a request
Send(request) == [send |-> request]
Sends(r) == "send" \in DOMAIN r

generate_tailored_resume_none_only(api_key, user, job) ==
    IF IsNone(api_key)
    THEN Return(ERROR_NO_KEY_RESUME)
    ELSE Send(ChatCompletionRequest(tailored_resume_prompt(user, job)))

\* generate_tailored_resume up to openai.ChatCompletion.create
generate_tailored_resume_call(api_key, user, job) ==
    IF ~Truthy(api_key)
    THEN Return(ERROR_NO_KEY_RESUME)
    ELSE Send(ChatCompletionRequest(tailored_resume_prompt(user, job)))

\* generate_tailored_resume from the response on; content is
\* response.choices[0].message.content, as characters
generate_tailored_resume_return(content) ==
    JakesResumeFormatter_post_process_text(text(strip(content)))

\* generate_cover_letter up to openai.ChatCompletion.create
generate_cover_letter_call(api_key, user, job) ==
    IF ~Truthy(api_key)
    THEN Return(ERROR_NO_KEY_COVER_LETTER)
    ELSE Send(ChatCompletionRequest(cover_letter_prompt(user, job)))

\* generate_cover_letter from the response on
generate_cover_letter_return(content) ==
    DedyCoverLetterFormatter_post_process_text(text(strip(content)))

\* -----------------------------------------------------------------------
\* File names
\* -----------------------------------------------------------------------
\* the text of %m, %d, %H, %M and %S: two digits
zfill2_unpadded(n) == ToString(n)

zfill2(n) == IF n < 10 THEN "0" \o ToString(n) ELSE ToString(n)

\* now.strftime("%Y%m%d_%H%M%S"), now a datetime of the years 1000..9999
strftime(now) ==
    ToString(now.year) \o zfill2(now.month) \o zfill2(now.day) \o "_"
    \o zfill2(now.hour) \o zfill2(now.minute) \o zfill2(now.second)

\* create_output_filenames(base_name), now being datetime.datetime.now()
create_output_filenames(base_name, now) ==
    [resume |-> base_name \o "_resume_" \o strftime(now) \o ".txt",
     cover_letter |-> base_name \o "_cover_letter_" \o strftime(now) \o ".txt"]

\* -----------------------------------------------------------------------
\* Interactive gathering: the console lines a call of input() returns are
\* taken, in order, from the sequence lines; every sequence handed over is
\* a whole console session (input() never meets the end of the input)
\* -----------------------------------------------------------------------
\* input(...).strip()
stripped(line) == text(strip(line))

RECURSIVE read_experiences(_, _)
\* the loop "Add a work experience? (y/n)"
read_experiences(lines, experiences) ==
    IF text(strip(lower(lines[1]))) # "y"
    THEN [list |-> experiences, rest |-> Tail(lines)]
    ELSE read_experiences(
             SubSeq(lines, 6, Len(lines)),
             Append(experiences,
                    [company |-> stripped(lines[2]),
                     role |-> stripped(lines[3]),
                     duration |-> stripped(lines[4]),
                     description |-> stripped(lines[5])]))

RECURSIVE read_education(_, _)
\* the loop "Add an education entry? (y/n)"
read_education(lines, education) ==
    IF text(strip(lower(lines[1]))) # "y"
    THEN [list |-> education, rest |-> Tail(lines)]
    ELSE read_education(
             SubSeq(lines, 5, Len(lines)),
             Append(education,
                    [institution |-> stripped(lines[2]),
                     degree |-> stripped(lines[3]),
                     graduation_year |-> stripped(lines[4])]))

RECURSIVE read_until_blank(_, _)
\* the loop that reads lines up to a blank one
read_until_blank(lines, read) ==
    IF strip(lines[1]) = <<>>
    THEN [list |-> read, rest |-> Tail(lines)]
    ELSE read_until_blank(Tail(lines), Append(read, text(lines[1])))

gather_user_profile_input(lines) ==
    LET experiences == read_experiences(SubSeq(lines, 6, Len(lines)), <<>>)
        education == read_education(experiences.rest, <<>>)
    IN  UserProfile(stripped(lines[1]),
                    stripped(lines[2]),
                    stripped(lines[3]),
                    stripped(lines[4]),
                    SelectNonEmpty(split(strip(lines[5]), ",")),
                    experiences.list,
                    education.list)

gather_job_description_input(lines) ==
    LET responsibilities == read_until_blank(SubSeq(lines, 3, Len(lines)), <<>>)
        after == responsibilities.rest
        job_summary == read_until_blank(SubSeq(after, 3, Len(after)), <<>>)
    IN  JobDescription(stripped(lines[1]),
                       stripped(lines[2]),
                       join("\n", responsibilities.list),
                       SelectNonEmpty(split(strip(after[1]), ",")),
                       stripped(after[2]),
                       join("\n", job_summary.list),
                       Str(stripped(job_summary.rest[1])))

\* -----------------------------------------------------------------------
\* The inputs the model draws from
\* -----------------------------------------------------------------------
\* openai.api_key after os.environ.get("OPENAI_API_KEY", None)
ApiKeys == {None, Str(""), Str("sk-test")}

SkillUniverse == {"Python", "SQL", "Go"}

ExperienceUniverse ==
    { [company |-> "Acme", role |-> "Engineer", duration |-> "2019-2021",
       description |-> "Built services"],
      [company |-> "Globex", role |-> "Analyst", duration |-> "2021-2023",
       description |-> "Ran reports"] }

EducationUniverse ==
    { [institution |-> "MIT", degree |-> "BSc", graduation_year |-> "2019"] }

NotesUniverse == {None, Str(""), Str("Apply by Friday")}

\* the profiles of the unit harnesses
Profiles ==
    { UserProfile(full_name, "ada@example.org", "555-0100",
                  "Engineer and analyst", skills, experiences, education) :
        full_name \in {"", "Ada Lovelace"},
        skills \in {<<>>, <<"Python", "SQL">>},
        experiences \in SeqUpTo(ExperienceUniverse, MaxExperiences),
        education \in SeqUpTo(EducationUniverse, 1) }

\* the job descriptions of the unit harnesses
Jobs ==
    { JobDescription("Initech", "Developer", "Build\nRun", required_skills,
                     "Remote", "Senior role", additional_notes) :
        required_skills \in SeqUpTo(SkillUniverse, MaxSkills),
        additional_notes \in NotesUniverse }

\* answers to "(l)oad ... or (c)reate"
ChoiceLines == { <<"l">>, <<" ", "L">>, <<"\f", "L", "">>, <<"c">>, <<"C", "">>, <<>> }

\* console sessions of gather_user_profile_input
ProfileSessions ==
    { << <<" ", "A", "d", "a">>, <<"a", "@", "x">>, <<"5", "5", "5">>,
         <<"D", "e", "v", " ">>,
         <<"S", "Q", "L", ",", " ", "G", "o", ",", " ">>,
         <<"Y">>, <<"A", "c", "m", "e">>, <<"D", "e", "v">>,
         <<"2", "0", "2", "0">>, <<"A", "P", "I", "s">>,
         <<"n">>,
         <<"y", " ">>, <<"M", "I", "T">>, <<"B", "S", "c">>,
         <<"2", "0", "1", "9">>,
         <<>> >>,
      << <<>>, <<>>, <<>>, <<>>, <<>>, <<"n">>, <<"n">> >> }

\* console sessions of gather_job_description_input
JobSessions ==
    { << <<"I", "n", "c">>, <<"D", "e", "v">>,
         <<"B", "u", "i", "l", "d">>, <<" ", "R", "u", "n">>, <<>>,
         <<"S", "Q", "L", ",", "G", "o">>,
         <<"R", "e", "m", "o", "t", "e">>,
         <<"S", "e", "n", "i", "o", "r">>, <<" ">>,
         <<>> >>,
      << <<>>, <<>>, <<>>, <<>>, <<>>, <<>>, <<" ", "A", "S", "A", "P">> >> }

\* what DEFAULT_USER_PROFILE_FILE may hold when main starts; None: no file
ProfileFiles ==
    { None,
      JsonFile(json_dump_profile(UserProfile_to_dict(
          UserProfile("Bob", "bob@example.org", "555-0101", "Analyst",
                      <<"SQL">>,
                      << [company |-> "Globex", role |-> "Analyst",
                          duration |-> "2021-2023",
                          description |-> "Ran reports"] >>,
                      <<>>)))),
      JsonFile(json_object([full_name |-> json_string("Eve")])),
      JsonFile(json_array(<<>>)),
      TextFile("{\"full_name\": ") }

\* what DEFAULT_JOB_DESCRIPTION_FILE may hold when main starts
JobFiles ==
    { None,
      JsonFile(json_dump_job(JobDescription_to_dict(
          JobDescription("Initech", "Developer", "Build\nRun",
                         <<"SQL", "Go">>, "Remote", "Senior role", None)))),
      JsonFile(json_object([company_name |-> json_string("Hooli"),
                            additional_notes |-> json_string("Hybrid")])),
      JsonFile(json_array(<<>>)),
      TextFile("") }

FileSystem(profile_file, job_file) ==
    [path \in (IF IsNone(profile_file) THEN {} ELSE {DEFAULT_USER_PROFILE_FILE})
              \cup (IF IsNone(job_file) THEN {} ELSE {DEFAULT_JOB_DESCRIPTION_FILE})
        |-> IF path = DEFAULT_USER_PROFILE_FILE THEN profile_file ELSE job_file]

FileSystems == { FileSystem(p, j) : p \in ProfileFiles, j \in JobFiles }

\* response.choices[0].message.content of an answered request, as characters
ResponseContents == { <<"\n", "O", "K", " ">>, <<"H", "i">> }

\* exceptions openai.ChatCompletion.create raises
RemoteErrors == {"APIConnectionError", "RateLimitError"}

\* datetime.datetime.now(): a naive local date and time
Datetime(year, month, day, hour, minute, second, microsecond) ==
    [year |-> year, month |-> month, day |-> day, hour |-> hour,
     minute |-> minute, second |-> second, microsecond |-> microsecond]

\* the readings of the clock in a run of main
MainTimes == { Datetime(2026, 1, 11, 9, 5, 7, 0),
               Datetime(2026, 11, 1, 23, 59, 59, 250000) }

\* the readings of the clock in the file name harness
Times ==
    { Datetime(2026, month, day, hour, 5, second, microsecond) :
        month \in {1, 11}, day \in {1, 11}, hour \in {1, 11},
        second \in {1, 11}, microsecond \in {0, 500000} }

BaseNames == {"job_app", "application"}

\* -----------------------------------------------------------------------
\* main(): one action per step
\* -----------------------------------------------------------------------
mainLocals == <<user_profile, job_desc, tailored_resume, cover_letter, filenames>>
harness == <<subject, results, resume_lines>>

\* input("> ").strip().lower()
Choice(line) == text(lower(strip(line)))

Init ==
    /\ pc = "profile"
    /\ openai_api_key \in ApiKeys
    /\ files \in FileSystems
    /\ user_profile = None
    /\ job_desc = None
    /\ tailored_resume = None
    /\ cover_letter = None
    /\ filenames = None
    /\ requests = <<>>
    /\ in_flight = 0
    /\ steps = <<>>
    /\ writes = <<>>
    /\ exception = None
    /\ subject = None
    /\ results = <<>>
    /\ resume_lines = <<>>

\* a step 1 that saves the profile after loading it as well
LoadUserProfileThenSave ==
    /\ pc = "profile"
    /\ \E line \in ChoiceLines :
        /\ Choice(line) = "l"
        /\ LET r == load_user_profile(files, DEFAULT_USER_PROFILE_FILE) IN
            /\ steps' = Append(steps, "load_profile")
            /\ IF Raised(r)
               THEN /\ pc' = "raised"
                    /\ exception' = Str(r.raise)
                    /\ UNCHANGED <<user_profile, files, writes>>
               ELSE /\ pc' = "job"
                    /\ user_profile' = r.ret
                    /\ files' = save_user_profile(files, r.ret,
                                                  DEFAULT_USER_PROFILE_FILE)
                    /\ writes' = Append(writes, DEFAULT_USER_PROFILE_FILE)
                    /\ UNCHANGED exception
    /\ UNCHANGED <<openai_api_key, job_desc, tailored_resume, cover_letter,
                   filenames, requests, in_flight, harness>>

\* step 1, answer 'l': user_profile = load_user_profile(...)
LoadUserProfile ==
    /\ pc = "profile"
    /\ \E line \in ChoiceLines :
        /\ Choice(line) = "l"
        /\ LET r == load_user_profile(files, DEFAULT_USER_PROFILE_FILE) IN
            /\ steps' = Append(steps, "load_profile")
            /\ IF Raised(r)
               THEN /\ pc' = "raised"
                    /\ exception' = Str(r.raise)
                    /\ UNCHANGED user_profile
               ELSE /\ pc' = "job"
                    /\ user_profile' = r.ret
                    /\ UNCHANGED exception
    /\ UNCHANGED <<openai_api_key, files, job_desc, tailored_resume,
                   cover_letter, filenames, requests, in_flight, writes,
                   harness>>

\* step 1, any other answer: gather_user_profile_input, save_user_profile
CreateUserProfile ==
    /\ pc = "profile"
    /\ \E line \in ChoiceLines, session \in ProfileSessions :
        /\ Choice(line) # "l"
        /\ user_profile' = gather_user_profile_input(session)
        /\ files' = save_user_profile(files, user_profile',
                                      DEFAULT_USER_PROFILE_FILE)
    /\ writes' = Append(writes, DEFAULT_USER_PROFILE_FILE)
    /\ steps' = steps \o <<"gather_profile", "save_profile">>
    /\ pc' = "job"
    /\ UNCHANGED <<openai_api_key, job_desc, tailored_resume, cover_letter,
                   filenames, requests, in_flight, exception, harness>>

\* step 2, answer 'l': job_desc = load_job_description(...)
LoadJobDescription ==
    /\ pc = "job"
    /\ \E line \in ChoiceLines :
        /\ Choice(line) = "l"
        /\ LET r == load_job_description(files, DEFAULT_JOB_DESCRIPTION_FILE) IN
            /\ steps' = Append(steps, "load_job")
            /\ IF Raised(r)
               THEN /\ pc' = "raised"
                    /\ exception' = Str(r.raise)
                    /\ UNCHANGED job_desc
               ELSE /\ pc' = "generate_resume"
                    /\ job_desc' = r.ret
                    /\ UNCHANGED exception
    /\ UNCHANGED <<openai_api_key, files, user_profile, tailored_resume,
                   cover_letter, filenames, requests, in_flight, writes,
                   harness>>

\* step 2, any other answer: gather_job_description_input, save_job_description
CreateJobDescription ==
    /\ pc = "job"
    /\ \E line \in ChoiceLines, session \in JobSessions :
        /\ Choice(line) # "l"
        /\ job_desc' = gather_job_description_input(session)
        /\ files' = save_job_description(files, job_desc',
                                         DEFAULT_JOB_DESCRIPTION_FILE)
    /\ writes' = Append(writes, DEFAULT_JOB_DESCRIPTION_FILE)
    /\ steps' = steps \o <<"gather_job", "save_job">>
    /\ pc' = "generate_resume"
    /\ UNCHANGED <<openai_api_key, user_profile, tailored_resume, cover_letter,
                   filenames, requests, in_flight, exception, harness>>

\* a generate_tailored_resume that raises when no credential is configured
GenerateTailoredResumeRaisingWithoutKey ==
    /\ pc = "generate_resume"
    /\ steps' = Append(steps, "generate_resume")
    /\ IF Truthy(openai_api_key)
       THEN /\ requests' = Append(requests, ChatCompletionRequest(
                               tailored_resume_prompt(user_profile, job_desc)))
            /\ in_flight' = in_flight + 1
            /\ pc' = "resume_request"
            /\ UNCHANGED exception
       ELSE /\ exception' = Str("RuntimeError")
            /\ pc' = "raised"
            /\ UNCHANGED <<requests, in_flight>>
    /\ UNCHANGED <<openai_api_key, files, mainLocals, writes, harness>>

\* step 3: tailored_resume = generate_tailored_resume(user_profile, job_desc),
\* up to its return without a request or to the sending of its request
GenerateTailoredResume ==
    /\ pc = "generate_resume"
    /\ steps' = Append(steps, "generate_resume")
    /\ LET r == generate_tailored_resume_call(openai_api_key, user_profile,
                                              job_desc) IN
        IF Sends(r)
        THEN /\ requests' = Append(requests, r.send)
             /\ in_flight' = in_flight + 1
             /\ pc' = "resume_request"
             /\ UNCHANGED tailored_resume
        ELSE /\ tailored_resume' = Str(r.ret)
             /\ pc' = "generate_cover"
             /\ UNCHANGED <<requests, in_flight>>
    /\ UNCHANGED <<openai_api_key, files, user_profile, job_desc, cover_letter,
                   filenames, writes, exception, harness>>

\* the request of generate_tailored_resume is answered
TailoredResumeResponse ==
    /\ pc = "resume_request"
    /\ \E content \in ResponseContents :
        tailored_resume' = Str(generate_tailored_resume_return(content))
    /\ in_flight' = in_flight - 1
    /\ pc' = "generate_cover"
    /\ UNCHANGED <<openai_api_key, files, user_profile, job_desc, cover_letter,
                   filenames, requests, steps, writes, exception, harness>>

\* a generate_tailored_resume that sends its request again when it failed
TailoredResumeFailureRetried ==
    /\ pc = "resume_request"
    /\ requests' = Append(requests, Last(requests))
    /\ UNCHANGED <<pc, openai_api_key, files, mainLocals, in_flight, steps,
                   writes, exception, harness>>

\* the request of generate_tailored_resume fails: the exception is caught
\* neither by the generator nor by main
TailoredResumeFailure ==
    /\ pc = "resume_request"
    /\ \E e \in RemoteErrors : exception' = Str(e)
    /\ in_flight' = in_flight - 1
    /\ pc' = "raised"
    /\ UNCHANGED <<openai_api_key, files, mainLocals, requests, steps, writes,
                   harness>>

\* step 4: cover_letter = generate_cover_letter(user_profile, job_desc)
GenerateCoverLetter ==
    /\ pc = "generate_cover"
    /\ steps' = Append(steps, "generate_cover")
    /\ LET r == generate_cover_letter_call(openai_api_key, user_profile,
                                           job_desc) IN
        IF Sends(r)
        THEN /\ requests' = Append(requests, r.send)
             /\ in_flight' = in_flight + 1
             /\ pc' = "cover_request"
             /\ UNCHANGED cover_letter
        ELSE /\ cover_letter' = Str(r.ret)
             /\ pc' = "write_resume"
             /\ UNCHANGED <<requests, in_flight>>
    /\ UNCHANGED <<openai_api_key, files, user_profile, job_desc,
                   tailored_resume, filenames, writes, exception, harness>>

\* the request of generate_cover_letter is answered
CoverLetterResponse ==
    /\ pc = "cover_request"
    /\ \E content \in ResponseContents :
        cover_letter' = Str(generate_cover_letter_return(content))
    /\ in_flight' = in_flight - 1
    /\ pc' = "write_resume"
    /\ UNCHANGED <<openai_api_key, files, user_profile, job_desc,
                   tailored_resume, filenames, requests, steps, writes,
                   exception, harness>>

\* a generate_cover_letter that catches the exception of its request, keeps
\* it and returns an error string
CoverLetterFailureCaught ==
    /\ pc = "cover_request"
    /\ \E e \in RemoteErrors : exception' = Str(e)
    /\ cover_letter' = Str("[ERROR] Could not generate cover letter.")
    /\ in_flight' = in_flight - 1
    /\ pc' = "write_resume"
    /\ UNCHANGED <<openai_api_key, files, user_profile, job_desc,
                   tailored_resume, filenames, requests, steps, writes,
                   harness>>

\* the request of generate_cover_letter fails
CoverLetterFailure ==
    /\ pc = "cover_request"
    /\ \E e \in RemoteErrors : exception' = Str(e)
    /\ in_flight' = in_flight - 1
    /\ pc' = "raised"
    /\ UNCHANGED <<openai_api_key, files, mainLocals, requests, steps, writes,
                   harness>>

\* step 5, first half: filenames = create_output_filenames(base_name="job_app")
\* and save_document_to_file(tailored_resume, filenames["resume"])
WriteResumeSkippingCoverLetter ==
    /\ pc = "write_resume"
    /\ \E now \in MainTimes :
        filenames' = create_output_filenames("job_app", now)
    /\ files' = save_document_to_file(files, tailored_resume.str,
                                      filenames'.resume)
    /\ writes' = Append(writes, filenames'.resume)
    /\ steps' = Append(steps, "write_resume")
    /\ pc' = "summary"
    /\ UNCHANGED <<openai_api_key, user_profile, job_desc, tailored_resume,
                   cover_letter, requests, in_flight, exception, harness>>

WriteResume ==
    /\ pc = "write_resume"
    /\ \E now \in MainTimes :
        filenames' = create_output_filenames("job_app", now)
    /\ files' = save_document_to_file(files, tailored_resume.str,
                                      filenames'.resume)
    /\ writes' = Append(writes, filenames'.resume)
    /\ steps' = Append(steps, "write_resume")
    /\ pc' = "write_cover"
    /\ UNCHANGED <<openai_api_key, user_profile, job_desc, tailored_resume,
                   cover_letter, requests, in_flight, exception, harness>>

\* step 5, second half:
\* save_document_to_file(cover_letter, filenames["cover_letter"])
WriteCoverLetter ==
    /\ pc = "write_cover"
    /\ files' = save_document_to_file(files, cover_letter.str,
                                      filenames.cover_letter)
    /\ writes' = Append(writes, filenames.cover_letter)
    /\ steps' = Append(steps, "write_cover")
    /\ pc' = "summary"
    /\ UNCHANGED <<openai_api_key, mainLocals, requests, in_flight, exception,
                   harness>>

\* step 6: the three closing print calls; main returns
Summary ==
    /\ pc = "summary"
    /\ steps' = Append(steps, "summary")
    /\ pc' = "done"
    /\ UNCHANGED <<openai_api_key, files, mainLocals, requests, in_flight,
                   writes, exception, harness>>

Next ==
    \/ LoadUserProfile
    \/ CreateUserProfile
    \/ LoadJobDescription
    \/ CreateJobDescription
    \/ GenerateTailoredResume
    \/ TailoredResumeResponse
    \/ TailoredResumeFailure
    \/ GenerateCoverLetter
    \/ CoverLetterResponse
    \/ CoverLetterFailure
    \/ WriteResume
    \/ WriteCoverLetter
    \/ Summary

Spec == Init /\ [][Next]_vars

\* -----------------------------------------------------------------------
\* Properties of a run of main()
\* -----------------------------------------------------------------------

GenerationSteps == {"generate_resume", "generate_cover"}

\* main has got past step 2: both records are there
InputsObtained == ~IsNone(user_profile) /\ ~IsNone(job_desc)

\* the exception that left main came out of a generation step
AbortedInGeneration ==
    pc = "raised" /\ steps # <<>> /\ Last(steps) \in GenerationSteps

\* the output file of a document exists and holds exactly content
OutputHolds(filename, content) ==
    /\ Exists(files, filename)
    /\ files[filename] = TextFile(content)

\* C2: in a run of main with no credential configured, no exception comes
\* out of the generation and write steps and the run goes on to its end:
\* once both records are obtained main never raises and is never stuck
\* before "done", and at "done" both output files are written, the resume
\* file holding exactly the resume error string and the cover letter file
\* exactly the cover letter error string.
C2_NoCredentialRunCompletes ==
    (~Truthy(openai_api_key) /\ InputsObtained) =>
        /\ pc # "raised"
        /\ pc # "done" => ENABLED Next
        /\ pc = "done" =>
            /\ filenames.resume # filenames.cover_letter
            /\ OutputHolds(filenames.resume, ERROR_NO_KEY_RESUME)
            /\ OutputHolds(filenames.cover_letter, ERROR_NO_KEY_COVER_LETTER)

C2_Witness ==
    /\ ~Truthy(openai_api_key)
    /\ pc = "done"
    /\ OutputHolds(filenames.resume, ERROR_NO_KEY_RESUME)
    /\ OutputHolds(filenames.cover_letter, ERROR_NO_KEY_COVER_LETTER)

\* C3 as stated: a generation step that fails, whatever the cause (a failed
\* remote call included), never aborts the run.
C3_GenerationFailureNeverAborts == ~AbortedInGeneration

\* C3 as amended: a generation step that fails because no credential is
\* configured does not abort the run: main goes on to the write step and
\* saves both output files, the file of a document whose generation failed
\* holding its error string; the only runs aborted in a generation step are
\* those, with a credential, whose remote call raised.
C3_MissingCredentialFailureDoesNotAbort ==
    /\ (tailored_resume = Str(ERROR_NO_KEY_RESUME)
        \/ cover_letter = Str(ERROR_NO_KEY_COVER_LETTER)) =>
            /\ pc # "raised"
            /\ pc # "done" => ENABLED Next
            /\ pc = "done" =>
                /\ Exists(files, filenames.resume)
                /\ Exists(files, filenames.cover_letter)
    /\ (pc = "done" /\ tailored_resume = Str(ERROR_NO_KEY_RESUME)) =>
            OutputHolds(filenames.resume, ERROR_NO_KEY_RESUME)
    /\ (pc = "done" /\ cover_letter = Str(ERROR_NO_KEY_COVER_LETTER)) =>
            OutputHolds(filenames.cover_letter, ERROR_NO_KEY_COVER_LETTER)
    /\ AbortedInGeneration =>
            /\ Truthy(openai_api_key)
            /\ exception \in {Str(e) : e \in RemoteErrors}

C3_Witness ==
    /\ pc = "done"
    /\ tailored_resume = Str(ERROR_NO_KEY_RESUME)
    /\ cover_letter = Str(ERROR_NO_KEY_COVER_LETTER)
    /\ OutputHolds(filenames.resume, ERROR_NO_KEY_RESUME)
    /\ OutputHolds(filenames.cover_letter, ERROR_NO_KEY_COVER_LETTER)

\* the orders in which a run of main that reaches its end executes its steps
StepOrders ==
    { p \o j \o <<"generate_resume", "generate_cover", "write_resume",
                  "write_cover", "summary">> :
        p \in { <<"load_profile">>, <<"gather_profile", "save_profile">> },
        j \in { <<"load_job">>, <<"gather_job", "save_job">> } }

\* the writes of a run that executed the steps s, in order
RECURSIVE WritesOf(_)
WritesOf(s) ==
    IF s = <<>> THEN <<>>
    ELSE (CASE Head(s) = "save_profile" -> <<DEFAULT_USER_PROFILE_FILE>>
            [] Head(s) = "save_job" -> <<DEFAULT_JOB_DESCRIPTION_FILE>>
            [] Head(s) = "write_resume" -> <<filenames.resume>>
            [] Head(s) = "write_cover" -> <<filenames.cover_letter>>
            [] OTHER -> <<>>)
         \o WritesOf(Tail(s))

\* C4: every run of main executes its steps in one fixed order, none
\* skipped and none repeated: at every moment the steps executed so far
\* are an initial part of profile (saved if newly built), job description
\* (saved if newly built), resume generation, cover letter generation,
\* resume write, cover letter write, summary; a run that ends has executed
\* all of them, and the files were written in that order.
C4_FixedStepOrder ==
    /\ \E order \in StepOrders : IsPrefix(steps, order)
    /\ pc = "done" => steps \in StepOrders
    /\ writes = WritesOf(steps)

C4_Witness ==
    /\ pc = "done"
    /\ steps = <<"gather_profile", "save_profile", "load_job",
                 "generate_resume", "generate_cover", "write_resume",
                 "write_cover", "summary">>

\* the number of generation steps main has started
GenerationsStarted ==
    Cardinality({i \in DOMAIN steps : steps[i] \in GenerationSteps})

\* C5: with a credential configured each generator call issues exactly one
\* request and never another one: as many requests were issued as generators
\* were called, a run that ends has issued exactly two, first the resume
\* prompt and then the cover letter prompt, at most one request is
\* outstanding at any time, and the cover letter request is issued only
\* after the resume request was answered.
C5_OneRequestPerGenerator ==
    Truthy(openai_api_key) =>
        /\ Len(requests) = GenerationsStarted
        /\ in_flight = (IF pc \in {"resume_request", "cover_request"} THEN 1 ELSE 0)
        /\ Len(requests) >= 1 =>
            requests[1] = ChatCompletionRequest(
                              tailored_resume_prompt(user_profile, job_desc))
        /\ Len(requests) >= 2 =>
            /\ ~IsNone(tailored_resume)
            /\ requests[2] = ChatCompletionRequest(
                                 cover_letter_prompt(user_profile, job_desc))
        /\ pc = "done" => Len(requests) = 2

C5_Witness ==
    /\ Truthy(openai_api_key)
    /\ pc = "done"
    /\ Len(requests) = 2
    /\ in_flight = 0

\* -----------------------------------------------------------------------
\* Unit harness of the two generators: openai.ChatCompletion.create is a
\* stub that records the request and answers at once
\* -----------------------------------------------------------------------
\* the profiles the generators are called with
GeneratorProfiles ==
    { UserProfile("Ada Lovelace", "ada@example.org", "555-0100",
                  "Engineer and analyst", <<"Python", "SQL">>, experiences,
                  <<>>) :
        experiences \in SeqUpTo(ExperienceUniverse, MaxExperiences) }

StubContent == <<" ", "D", "r", "a", "f", "t", "\n">>

InitGenerators ==
    /\ pc = "unit"
    /\ openai_api_key \in ApiKeys
    /\ files = FileSystem(None, None)
    /\ user_profile \in GeneratorProfiles
    /\ job_desc \in Jobs
    /\ tailored_resume = None
    /\ cover_letter = None
    /\ filenames = None
    /\ requests = <<>>
    /\ in_flight = 0
    /\ steps = <<>>
    /\ writes = <<>>
    /\ exception = None
    /\ subject = [user |-> user_profile, job |-> job_desc]
    /\ results = <<>>
    /\ resume_lines = <<>>

\* one call generate_tailored_resume(user_profile, job_desc)
CallGenerateTailoredResume ==
    /\ pc = "unit"
    /\ Len(results) < MaxCalls
    /\ LET r == generate_tailored_resume_call(openai_api_key, user_profile,
                                              job_desc) IN
        IF Sends(r)
        THEN /\ requests' = Append(requests, r.send)
             /\ results' = Append(results,
                    [fn |-> "generate_tailored_resume", sent |-> r.send,
                     ret |-> generate_tailored_resume_return(StubContent)])
        ELSE /\ results' = Append(results,
                    [fn |-> "generate_tailored_resume", sent |-> None,
                     ret |-> r.ret])
             /\ UNCHANGED requests
    /\ UNCHANGED <<pc, openai_api_key, files, mainLocals, in_flight, steps,
                   writes, exception, subject,
                   resume_lines>>

\* one call generate_cover_letter(user_profile, job_desc)
CallGenerateCoverLetter ==
    /\ pc = "unit"
    /\ Len(results) < MaxCalls
    /\ LET r == generate_cover_letter_call(openai_api_key, user_profile,
                                           job_desc) IN
        IF Sends(r)
        THEN /\ requests' = Append(requests, r.send)
             /\ results' = Append(results,
                    [fn |-> "generate_cover_letter", sent |-> r.send,
                     ret |-> generate_cover_letter_return(StubContent)])
        ELSE /\ results' = Append(results,
                    [fn |-> "generate_cover_letter", sent |-> None,
                     ret |-> r.ret])
             /\ UNCHANGED requests
    /\ UNCHANGED <<pc, openai_api_key, files, mainLocals, in_flight, steps,
                   writes, exception, subject,
                   resume_lines>>

NextGenerators == CallGenerateTailoredResume \/ CallGenerateCoverLetter

SpecGenerators == InitGenerators /\ [][NextGenerators]_vars

\* C1: with no credential configured (openai.api_key None or empty) every
\* call of generate_tailored_resume and of generate_cover_letter returns its
\* literal "[ERROR] ..." string and no request is issued, whatever the
\* profile and the job description.
C1_NoCredentialNoRequest ==
    ~Truthy(openai_api_key) =>
        /\ requests = <<>>
        /\ \A i \in DOMAIN results :
            /\ IsNone(results[i].sent)
            /\ results[i].fn = "generate_tailored_resume" =>
                   results[i].ret = ERROR_NO_KEY_RESUME
            /\ results[i].fn = "generate_cover_letter" =>
                   results[i].ret = ERROR_NO_KEY_COVER_LETTER

C1_Witness ==
    /\ openai_api_key = Str("")
    /\ Len(results) = 2
    /\ results[1].fn = "generate_tailored_resume"
    /\ results[1].ret = ERROR_NO_KEY_RESUME
    /\ results[2].fn = "generate_cover_letter"
    /\ results[2].ret = ERROR_NO_KEY_COVER_LETTER
    /\ requests = <<>>

\* an enumerated experience line: "<idx>. <role> at <company> (<duration>):
\* <description>" and a line end
EnumeratedLine(idx, exp) ==
    ToString(idx) \o ". " \o exp.role \o " at " \o exp.company \o " ("
    \o exp.duration \o "): " \o exp.description \o "\n"

EnumeratedLines ==
    { EnumeratedLine(idx, exp) :
        idx \in 0..(MaxExperiences + 1), exp \in ExperienceUniverse }

RequiredSkillsLine(required_skills) ==
    "Required Skills: " \o join(", ", required_skills) \o "\n"

RequiredSkillsLines ==
    { RequiredSkillsLine(l) : l \in SeqUpTo(SkillUniverse, MaxSkills) }

\* the pieces of a prompt hold exactly the enumerated lines of experiences,
\* numbered from 1 in their order, and one line of the required skills
HoldsExperiencesAndSkills(pieces, experiences, required_skills) ==
    LET enumerated == {i \in DOMAIN pieces : pieces[i] \in EnumeratedLines}
        skills == {i \in DOMAIN pieces : pieces[i] \in RequiredSkillsLines}
    IN  /\ Cardinality(enumerated) = Len(experiences)
        /\ \E first \in DOMAIN pieces :
            /\ pieces[first] = "User's Experiences:\n"
            /\ enumerated = {first + k : k \in 1..Len(experiences)}
            /\ \A k \in 1..Len(experiences) :
                pieces[first + k] = EnumeratedLine(k, experiences[k])
        /\ Cardinality(skills) = 1
        /\ \A i \in skills : pieces[i] = RequiredSkillsLine(required_skills)

\* C9: for a profile with n experiences and a job with k required skills
\* the prompt generate_cover_letter sends holds exactly n enumerated
\* experience lines, numbered 1..n in the order of the profile's
\* experiences, and one "Required Skills" line with all k skills in order,
\* joined by ", ".
C9_CoverLetterPromptLines ==
    \A i \in DOMAIN results :
        (results[i].fn = "generate_cover_letter" /\ ~IsNone(results[i].sent)) =>
            LET pieces == cover_letter_prompt_pieces(user_profile, job_desc) IN
                /\ results[i].sent.messages[1].content = join("", pieces)
                /\ HoldsExperiencesAndSkills(pieces, subject.user.experiences,
                                             subject.job.required_skills)

C9_Witness ==
    /\ Len(subject.user.experiences) = 2
    /\ Len(subject.job.required_skills) = 3
    /\ \E i \in DOMAIN results :
        /\ results[i].fn = "generate_cover_letter"
        /\ ~IsNone(results[i].sent)
        /\ HoldsExperiencesAndSkills(
               cover_letter_prompt_pieces(user_profile, job_desc),
               subject.user.experiences, subject.job.required_skills)

\* -----------------------------------------------------------------------
\* Unit harness of the load and save functions: a record is saved and
\* loaded, in any order, on a file system that holds the file or does not
\* -----------------------------------------------------------------------
InitPersistence ==
    /\ pc = "unit"
    /\ openai_api_key = None
    /\ files \in { FileSystem(None, None),
                   FileSystem(JsonFile(json_object([full_name |-> json_string("Eve")])),
                              JsonFile(json_object([company_name |-> json_string("Hooli")]))),
                   FileSystem(TextFile("{"), TextFile("{")) }
    /\ subject \in {[type |-> "profile", x |-> p] : p \in Profiles}
                   \cup {[type |-> "job", x |-> j] : j \in Jobs}
    /\ user_profile = (IF subject.type = "profile" THEN subject.x ELSE None)
    /\ job_desc = (IF subject.type = "job" THEN subject.x ELSE None)
    /\ tailored_resume = None
    /\ cover_letter = None
    /\ filenames = None
    /\ requests = <<>>
    /\ in_flight = 0
    /\ steps = <<>>
    /\ writes = <<>>
    /\ exception = None
    /\ results = <<>>
    /\ resume_lines = <<>>

persistenceFrame ==
    <<pc, openai_api_key, tailored_resume, cover_letter, filenames, requests,
      in_flight, steps, exception, subject,
      resume_lines>>

\* save_user_profile(user_profile, DEFAULT_USER_PROFILE_FILE)
CallSaveUserProfile ==
    /\ pc = "unit"
    /\ subject.type = "profile"
    /\ Len(results) < 2 * MaxRoundTrips
    /\ files' = save_user_profile(files, user_profile, DEFAULT_USER_PROFILE_FILE)
    /\ writes' = Append(writes, DEFAULT_USER_PROFILE_FILE)
    /\ results' = Append(results, [op |-> "save", x |-> user_profile])
    /\ UNCHANGED <<persistenceFrame, user_profile, job_desc>>

\* user_profile = load_user_profile(DEFAULT_USER_PROFILE_FILE)
CallLoadUserProfile ==
    /\ pc = "unit"
    /\ subject.type = "profile"
    /\ Len(results) < 2 * MaxRoundTrips
    /\ LET r == load_user_profile(files, DEFAULT_USER_PROFILE_FILE) IN
        /\ results' = Append(results,
               [op |-> "load",
                existed |-> Exists(files, DEFAULT_USER_PROFILE_FILE),
                out |-> r])
        /\ user_profile' = (IF Raised(r) THEN user_profile ELSE r.ret)
    /\ UNCHANGED <<persistenceFrame, files, writes, job_desc>>

\* save_job_description(job_desc, DEFAULT_JOB_DESCRIPTION_FILE)
CallSaveJobDescription ==
    /\ pc = "unit"
    /\ subject.type = "job"
    /\ Len(results) < 2 * MaxRoundTrips
    /\ files' = save_job_description(files, job_desc, DEFAULT_JOB_DESCRIPTION_FILE)
    /\ writes' = Append(writes, DEFAULT_JOB_DESCRIPTION_FILE)
    /\ results' = Append(results, [op |-> "save", x |-> job_desc])
    /\ UNCHANGED <<persistenceFrame, user_profile, job_desc>>

\* job_desc = load_job_description(DEFAULT_JOB_DESCRIPTION_FILE)
CallLoadJobDescription ==
    /\ pc = "unit"
    /\ subject.type = "job"
    /\ Len(results) < 2 * MaxRoundTrips
    /\ LET r == load_job_description(files, DEFAULT_JOB_DESCRIPTION_FILE) IN
        /\ results' = Append(results,
               [op |-> "load",
                existed |-> Exists(files, DEFAULT_JOB_DESCRIPTION_FILE),
                out |-> r])
        /\ job_desc' = (IF Raised(r) THEN job_desc ELSE r.ret)
    /\ UNCHANGED <<persistenceFrame, files, writes, user_profile>>

NextPersistence ==
    \/ CallSaveUserProfile
    \/ CallLoadUserProfile
    \/ CallSaveJobDescription
    \/ CallLoadJobDescription

SpecPersistence == InitPersistence /\ [][NextPersistence]_vars

\* results[i] is a load that directly follows a save
LoadAfterSave(i) ==
    /\ i \in DOMAIN results /\ i - 1 \in DOMAIN results
    /\ results[i - 1].op = "save"
    /\ results[i].op = "load"

\* C6: for every UserProfile and every JobDescription x, saving x and then
\* loading the file returns a record equal to x field for field (a
\* JobDescription whose additional_notes is None included), and saving the
\* loaded record and loading again returns x once more.
C6_SaveLoadRoundTrip ==
    \A i \in DOMAIN results :
        /\ LoadAfterSave(i) => results[i].out = Return(results[i - 1].x)
        /\ (LoadAfterSave(i) /\ LoadAfterSave(i - 2)) =>
               results[i].out = Return(results[i - 3].x)

C6_Witness ==
    /\ subject.type = "job"
    /\ IsNone(subject.x.additional_notes)
    /\ Len(results) = 4
    /\ LoadAfterSave(2) /\ LoadAfterSave(4)
    /\ results[1].x = subject.x
    /\ results[4].out = Return(subject.x)

\* every string field of the record is "" and every sequence field <<>>,
\* additional_notes being notes
BlankProfile(x) ==
    /\ x.full_name = "" /\ x.contact_email = "" /\ x.phone_number = ""
    /\ x.professional_summary = ""
    /\ x.skills = <<>> /\ x.experiences = <<>> /\ x.education = <<>>

BlankJob(x, notes) ==
    /\ x.company_name = "" /\ x.position_title = "" /\ x.responsibilities = ""
    /\ x.job_location = "" /\ x.job_summary = ""
    /\ x.required_skills = <<>>
    /\ x.additional_notes = notes

\* results[i] is a load from a path where no file exists
LoadOfMissingFile(i) == results[i].op = "load" /\ ~results[i].existed

\* C7 as stated: a load from a path where no file exists returns, without
\* raising, a blank record: every string field "", every sequence field
\* empty, additional_notes of the job record being "" as well.
C7_MissingFileAllFieldsEmptyString ==
    \A i \in DOMAIN results :
        LoadOfMissingFile(i) =>
            /\ ~Raised(results[i].out)
            /\ subject.type = "profile" => BlankProfile(results[i].out.ret)
            /\ subject.type = "job" => BlankJob(results[i].out.ret, Str(""))

\* C7 as amended: a load from a path where no file exists returns, without
\* raising, a blank record: every string field "" and every sequence field
\* empty, except that additional_notes of the job record is None and not
\* the empty string.
C7_MissingFileBlankRecord ==
    \A i \in DOMAIN results :
        LoadOfMissingFile(i) =>
            /\ ~Raised(results[i].out)
            /\ subject.type = "profile" => BlankProfile(results[i].out.ret)
            /\ subject.type = "job" => BlankJob(results[i].out.ret, None)

C7_Witness ==
    /\ subject.type = "job"
    /\ Len(results) = 1
    /\ LoadOfMissingFile(1)
    /\ BlankJob(results[1].out.ret, None)

\* -----------------------------------------------------------------------
\* Unit harness of create_output_filenames: calls with one base name at
\* readings of the clock
\* -----------------------------------------------------------------------
InitFilenames ==
    /\ pc = "unit"
    /\ openai_api_key = None
    /\ files = FileSystem(None, None)
    /\ user_profile = None
    /\ job_desc = None
    /\ tailored_resume = None
    /\ cover_letter = None
    /\ filenames = None
    /\ requests = <<>>
    /\ in_flight = 0
    /\ steps = <<>>
    /\ writes = <<>>
    /\ exception = None
    /\ subject \in {[base_name |-> b] : b \in BaseNames}
    /\ results = <<>>
    /\ resume_lines = <<>>

\* filenames = create_output_filenames(base_name)
CallCreateOutputFilenames ==
    /\ pc = "unit"
    /\ Len(results) < MaxCalls
    /\ \E now \in Times :
        /\ filenames' = create_output_filenames(subject.base_name, now)
        /\ results' = Append(results, [now |-> now, ret |-> filenames'])
    /\ UNCHANGED <<pc, openai_api_key, files, user_profile, job_desc,
                   tailored_resume, cover_letter, requests, in_flight, steps,
                   writes, exception, subject,
                   resume_lines>>

NextFilenames == CallCreateOutputFilenames

SpecFilenames == InitFilenames /\ [][NextFilenames]_vars

\* the second a reading of the clock falls in
SecondOf(now) ==
    <<now.year, now.month, now.day, now.hour, now.minute, now.second>>

NamesOf(ret) == {ret.resume, ret.cover_letter}

\* C8: for a fixed base name two calls of create_output_filenames made in
\* the same second return the same pair of names, two calls made in
\* different seconds return no name in common, and the two names of one
\* call differ.
C8_FilenamesCollideWithinASecondOnly ==
    \A i \in DOMAIN results :
        /\ results[i].ret.resume # results[i].ret.cover_letter
        /\ \A j \in DOMAIN results :
            IF SecondOf(results[i].now) = SecondOf(results[j].now)
            THEN results[i].ret = results[j].ret
            ELSE NamesOf(results[i].ret) \cap NamesOf(results[j].ret) = {}

C8_Witness ==
    /\ Len(results) = 2
    /\ SecondOf(results[1].now) = SecondOf(results[2].now)
    /\ results[1].now # results[2].now
    /\ results[1].ret = results[2].ret

\* -----------------------------------------------------------------------
\* Unit harness of build_base_resume_text: repeated calls on one profile
\* -----------------------------------------------------------------------
InitBaseResume ==
    /\ pc = "unit"
    /\ openai_api_key \in {None, Str("sk-test")}
    /\ files \in { FileSystem(None, None),
                   FileSystem(TextFile("{"), TextFile("{")) }
    /\ user_profile \in Profiles
    /\ job_desc = None
    /\ tailored_resume = None
    /\ cover_letter = None
    /\ filenames = None
    /\ requests = <<>>
    /\ in_flight = 0
    /\ steps = <<>>
    /\ writes = <<>>
    /\ exception = None
    /\ subject = [user |-> user_profile, files |-> files]
    /\ results = <<>>
    /\ resume_lines = <<>>

\* what a step of build_base_resume_text leaves as it is: everything but its
\* position, its list and, at the return, the results
baseResumeFrame ==
    <<openai_api_key, files, mainLocals, requests, in_flight, steps, writes,
      exception, subject>>

\* a build_base_resume_text that keeps one list for all its calls, as with
\* def build_base_resume_text(user, lines=[])
CallBuildBaseResumeTextSharedLines ==
    /\ pc = "unit"
    /\ Len(results) < MaxCalls
    /\ pc' = "base_header"
    /\ UNCHANGED <<resume_lines, results, baseResumeFrame>>

\* entry of a call build_base_resume_text(user_profile): lines = []
CallBuildBaseResumeText ==
    /\ pc = "unit"
    /\ Len(results) < MaxCalls
    /\ resume_lines' = <<>>
    /\ pc' = "base_header"
    /\ UNCHANGED <<results, baseResumeFrame>>

\* the appends of name, email, phone and professional summary
AppendHeaderLines ==
    /\ pc = "base_header"
    /\ resume_lines' = resume_lines \o << "Name: " \o user_profile.full_name,
                                          "Email: " \o user_profile.contact_email,
                                          "Phone: " \o user_profile.phone_number,
                                          "\nProfessional Summary:",
                                          user_profile.professional_summary >>
    /\ pc' = "base_skills"
    /\ UNCHANGED <<results, baseResumeFrame>>

\* the append of the skills heading and the loop over user.skills
AppendSkillLines ==
    /\ pc = "base_skills"
    /\ resume_lines' = resume_lines \o << "\nSkills:" >> \o skill_lines(user_profile.skills)
    /\ pc' = "base_experiences"
    /\ UNCHANGED <<results, baseResumeFrame>>

\* the append of the experience heading and the loop over user.experiences
AppendExperienceLines ==
    /\ pc = "base_experiences"
    /\ resume_lines' = resume_lines \o << "\nExperience:" >>
                      \o experience_lines(user_profile.experiences)
    /\ pc' = "base_education"
    /\ UNCHANGED <<results, baseResumeFrame>>

\* the append of the education heading and the loop over user.education
AppendEducationLines ==
    /\ pc = "base_education"
    /\ resume_lines' = resume_lines \o << "\nEducation:" >>
                      \o education_lines(user_profile.education)
    /\ pc' = "base_return"
    /\ UNCHANGED <<results, baseResumeFrame>>

\* return "\n".join(lines)
ReturnBaseResumeText ==
    /\ pc = "base_return"
    /\ results' = Append(results,
           [fn |-> "build_base_resume_text", ret |-> join("\n", resume_lines)])
    /\ pc' = "unit"
    /\ UNCHANGED <<resume_lines, baseResumeFrame>>

NextBaseResume ==
    \/ CallBuildBaseResumeText
    \/ AppendHeaderLines
    \/ AppendSkillLines
    \/ AppendExperienceLines
    \/ AppendEducationLines
    \/ ReturnBaseResumeText

SpecBaseResume == InitBaseResume /\ [][NextBaseResume]_vars

\* the text the builder is to return for a profile, line by line: the four
\* headed parts in their order, a "- " bullet per skill, two lines per
\* experience, one line per education entry
RECURSIVE ExpectedBaseResumeText(_, _)
ExpectedBaseResumeText(user, part) ==
    CASE part = "identity" ->
             "Name: " \o user.full_name \o "\nEmail: " \o user.contact_email
                 \o "\nPhone: " \o user.phone_number
                 \o "\n\nProfessional Summary:\n" \o user.professional_summary
                 \o "\n\nSkills:" \o ExpectedBaseResumeText(user, "skills")
      [] part = "skills" ->
             text([i \in DOMAIN user.skills |-> "\n- " \o user.skills[i]])
                 \o "\n\nExperience:"
                 \o ExpectedBaseResumeText(user, "experiences")
      [] part = "experiences" ->
             text([i \in DOMAIN user.experiences |->
                      "\n" \o user.experiences[i]["role"] \o " at "
                          \o user.experiences[i]["company"] \o " ("
                          \o user.experiences[i]["duration"] \o ")\n  "
                          \o user.experiences[i]["description"]])
                 \o "\n\nEducation:"
                 \o ExpectedBaseResumeText(user, "education")
      [] OTHER ->
             text([i \in DOMAIN user.education |->
                      "\n" \o user.education[i]["degree"] \o " from "
                          \o user.education[i]["institution"] \o " - "
                          \o user.education[i]["graduation_year"]])

\* C10: build_base_resume_text is deterministic and pure: every call on a
\* profile, the first and the ones after it, returns the same string, which
\* is the rendering of that profile; at every point of a call and after it
\* the profile is as it was before the first call; and no request was issued
\* and no file written.
C10_BaseResumeTextPure ==
    /\ \A i, j \in DOMAIN results : results[i].ret = results[j].ret
    /\ \A i \in DOMAIN results :
           results[i].ret = ExpectedBaseResumeText(subject.user, "identity")
    /\ user_profile = subject.user
    /\ requests = <<>> /\ in_flight = 0
    /\ writes = <<>> /\ files = subject.files

C10_Witness ==
    /\ pc = "unit"
    /\ Len(results) = 2
    /\ Len(subject.user.experiences) = 2
    /\ subject.user.skills # <<>>
    /\ subject.user.education # <<>>
    /\ results[1].ret = results[2].ret
    /\ results[2].ret = build_base_resume_text(user_profile)
    /\ user_profile = subject.user

\* -----------------------------------------------------------------------
\* Properties of a run of main(), continued
\* -----------------------------------------------------------------------
\* the exception kept is one a remote call raised
RemoteCallFailed == exception \in {Str(e) : e \in RemoteErrors}

\* the paths of the two record files
RecordFiles == {DEFAULT_USER_PROFILE_FILE, DEFAULT_JOB_DESCRIPTION_FILE}

\* no output file was written: every write went to a record file and the
\* file system holds no other file
NoOutputFileWritten ==
    /\ Range(writes) \subseteq RecordFiles
    /\ DOMAIN files \subseteq RecordFiles
    /\ IsNone(filenames)

\* C11: a remote call that raises in either generator is caught nowhere and
\* ends the run there: main is left in that generation step, no later step
\* is executed and nothing more can happen, and no output file is written,
\* not even the resume when it is the cover letter call that failed.
C11_RemoteFailureEndsRunWithoutOutput ==
    RemoteCallFailed =>
        /\ AbortedInGeneration
        /\ ~ENABLED Next
        /\ NoOutputFileWritten
        /\ Last(steps) = "generate_cover" =>
               (~IsNone(tailored_resume) /\ IsNone(cover_letter))
        /\ Last(steps) = "generate_resume" =>
               (IsNone(tailored_resume) /\ IsNone(cover_letter))

C11_Witness ==
    /\ RemoteCallFailed
    /\ pc = "raised"
    /\ Last(steps) = "generate_cover"
    /\ ~IsNone(tailored_resume)
    /\ Len(requests) = 2
    /\ NoOutputFileWritten

\* -----------------------------------------------------------------------
\* Properties of the generators, continued
\* -----------------------------------------------------------------------
AdditionalNotesLine(shown) == "Additional Notes: " \o shown \o "\n\n"

\* every "Additional Notes" line a prompt of the model can hold
AdditionalNotesLines ==
    { AdditionalNotesLine(shown) :
        shown \in {"N/A", "None"} \cup {n.str : n \in NotesUniverse \ {None}} }

\* the pieces hold one "Additional Notes" line, and it shows shown
HoldsAdditionalNotes(pieces, shown) ==
    LET notes == {i \in DOMAIN pieces : pieces[i] \in AdditionalNotesLines}
    IN  /\ Cardinality(notes) = 1
        /\ \A i \in notes : pieces[i] = AdditionalNotesLine(shown)

\* what the tailored resume prompt shows for additional_notes
ShownInResumePrompt(notes) ==
    IF notes = None \/ notes = Str("") THEN "N/A" ELSE notes.str

\* what the cover letter prompt shows for additional_notes: the value as
\* Python prints it, None being printed "None"
ShownInCoverLetterPrompt(notes) ==
    IF notes = None THEN "None" ELSE notes.str

\* C12: the two generators treat additional_notes differently: the prompt
\* of generate_tailored_resume shows "N/A" in its Additional Notes line when
\* the job's additional_notes is empty or None and the notes otherwise; the
\* prompt of generate_cover_letter always shows the value itself, with no
\* default (an empty value as nothing, None as Python prints it).
C12_AdditionalNotesDefaultOnlyInResume ==
    \A i \in DOMAIN results :
        ~IsNone(results[i].sent) =>
            LET content == results[i].sent.messages[1].content
                notes == subject.job.additional_notes
            IN  IF results[i].fn = "generate_tailored_resume"
                THEN LET pieces == tailored_resume_prompt_pieces(user_profile, job_desc) IN
                     /\ content = join("", pieces)
                     /\ HoldsAdditionalNotes(pieces, ShownInResumePrompt(notes))
                ELSE LET pieces == cover_letter_prompt_pieces(user_profile, job_desc) IN
                     /\ content = join("", pieces)
                     /\ HoldsAdditionalNotes(pieces, ShownInCoverLetterPrompt(notes))

C12_Witness ==
    /\ subject.job.additional_notes = Str("")
    /\ Len(results) = 2
    /\ results[1].fn = "generate_tailored_resume"
    /\ results[2].fn = "generate_cover_letter"
    /\ ~IsNone(results[1].sent) /\ ~IsNone(results[2].sent)
    /\ HoldsAdditionalNotes(tailored_resume_prompt_pieces(user_profile, job_desc), "N/A")
    /\ HoldsAdditionalNotes(cover_letter_prompt_pieces(user_profile, job_desc), "")

\* -----------------------------------------------------------------------
\* Properties of a run of main(): the record files
\* -----------------------------------------------------------------------
\* a step leaves the file at path as it is: not created, not removed, not
\* rewritten
FileUntouched(path) ==
    /\ Exists(files', path) <=> Exists(files, path)
    /\ Exists(files, path) => files'[path] = files[path]

\* the number of writes to path so far
WritesTo(path) == Cardinality({i \in DOMAIN writes : writes[i] = path})

\* the run is past step 1 / past step 2
ProfileStepDone == steps # <<>>
JobStepDone == Range(steps) \cap {"load_job", "save_job"} # {}

\* the record was built at the console in this run
ProfileCreated == "gather_profile" \in Range(steps)
JobCreated == "gather_job" \in Range(steps)

\* what holds after each step of a run, of the record files
RecordFilesAsClaimed ==
    /\ (ProfileStepDone /\ ~ProfileCreated) =>
            WritesTo(DEFAULT_USER_PROFILE_FILE) = 0
    /\ (JobStepDone /\ ~JobCreated) =>
            WritesTo(DEFAULT_JOB_DESCRIPTION_FILE) = 0
    /\ ProfileCreated =>
            /\ WritesTo(DEFAULT_USER_PROFILE_FILE) = 1
            /\ files[DEFAULT_USER_PROFILE_FILE] =
                   JsonFile(json_dump_profile(UserProfile_to_dict(user_profile)))
    /\ JobCreated =>
            /\ WritesTo(DEFAULT_JOB_DESCRIPTION_FILE) = 1
            /\ files[DEFAULT_JOB_DESCRIPTION_FILE] =
                   JsonFile(json_dump_job(JobDescription_to_dict(job_desc)))

\* C13: a record file is written on the create branch only. In a run where
\* the answer for the profile (the job description) is 'l', no step of the
\* run creates, removes or rewrites the profile (job) file; with any other
\* answer the record is built at the console and its file is written exactly
\* once, holding that record from then on; and in both branches the steps
\* after step 2 (generation, writing, summary) leave both records in memory
\* as they are.
C13_RecordFileWrittenOnCreateOnly ==
    [][ /\ RecordFilesAsClaimed'
        /\ ~ProfileCreated' => FileUntouched(DEFAULT_USER_PROFILE_FILE)
        /\ ~JobCreated' => FileUntouched(DEFAULT_JOB_DESCRIPTION_FILE)
        /\ ProfileStepDone => FileUntouched(DEFAULT_USER_PROFILE_FILE)
        /\ JobStepDone =>
               /\ FileUntouched(DEFAULT_JOB_DESCRIPTION_FILE)
               /\ user_profile' = user_profile
               /\ job_desc' = job_desc ]_vars

C13_Witness ==
    /\ pc = "done"
    /\ ~ProfileCreated
    /\ ~Exists(files, DEFAULT_USER_PROFILE_FILE)
    /\ JobCreated
    /\ WritesTo(DEFAULT_JOB_DESCRIPTION_FILE) = 1
    /\ WritesTo(DEFAULT_USER_PROFILE_FILE) = 0
    /\ Len(writes) = 3
====
